---------------------------- MODULE Spec2Model ----------------------------
(***************************************************************************)
(* A model of the review-scoring functions of src/main.py:                 *)
(*   fetch_restaurant_data, extract_restaurant_scores (with get_score),    *)
(*   calculate_overall_score and get_data_fetch_agent_prompt.              *)
(*                                                                         *)
(* A Python str is a sequence of one-character strings, so that lower(),   *)
(* strip(), split(), replace() and the `in` substring test are computed    *)
(* character by character as Python computes them.                         *)
(***************************************************************************)
EXTENDS Integers, Sequences, FiniteSets, TLC

VARIABLES
    pc,                       \* which call comes next, or "done" / "raised"
    file,                     \* restaurant-data.txt: its status and its lines
    restaurant_name,          \* the name handed to the three pipeline functions
    fetched,                  \* the dict fetch_restaurant_data returned
    reviews,                  \* the review list handed to extract_restaurant_scores
    food_scores,              \* the lists extract_restaurant_scores returned and
    customer_service_scores,  \*   calculate_overall_score receives
    overall,                  \* the dict calculate_overall_score returned
    error,                    \* the exception raised, "" when none
    segment,                  \* get_score's argument
    score,                    \* get_score's return value
    restaurant_query,         \* get_data_fetch_agent_prompt's argument
    prompt                    \* get_data_fetch_agent_prompt's return value

vars == <<pc, file, restaurant_name, fetched, reviews, food_scores,
          customer_service_scores, overall, error, segment, score,
          restaurant_query, prompt>>

-----------------------------------------------------------------------------
(* Python str operations *)

UpperChars == <<"A","B","C","D","E","F","G","H","I","J","K","L","M","N","O","P","Q","R","S","T","U","V","W","X","Y","Z">>
LowerChars == <<"a","b","c","d","e","f","g","h","i","j","k","l","m","n","o","p","q","r","s","t","u","v","w","x","y","z">>

\* str.lower() of one character
LowerChar(c) ==
    IF \E i \in 1..Len(UpperChars) : UpperChars[i] = c
    THEN LowerChars[CHOOSE i \in 1..Len(UpperChars) : UpperChars[i] = c]
    ELSE c

RECURSIVE lower(_)
\* str.lower()
lower(s) == IF s = <<>> THEN <<>> ELSE <<LowerChar(Head(s))>> \o lower(Tail(s))

\* the characters str.strip() removes
Whitespace == {" ", "\t", "\n", "\r", "\f"}

RECURSIVE lstrip(_)
lstrip(s) ==
    IF s # <<>> /\ Head(s) \in Whitespace THEN lstrip(Tail(s)) ELSE s

RECURSIVE rstrip(_)
rstrip(s) ==
    IF s # <<>> /\ s[Len(s)] \in Whitespace
    THEN rstrip(SubSeq(s, 1, Len(s) - 1))
    ELSE s

\* str.strip()
strip(s) == rstrip(lstrip(s))

\* whether sub starts at index i of s
StartsAt(s, sub, i) ==
    /\ i + Len(sub) - 1 <= Len(s)
    /\ SubSeq(s, i, i + Len(sub) - 1) = sub

RECURSIVE FindFrom(_, _, _)
\* the scan of str.find(): the first index >= i where sub starts, 0 when none
FindFrom(s, sub, i) ==
    IF i + Len(sub) - 1 > Len(s) THEN 0
    ELSE IF StartsAt(s, sub, i) THEN i
    ELSE FindFrom(s, sub, i + 1)

\* Python's `sub in s`
Contains(s, sub) == FindFrom(s, sub, 1) # 0

\* str.split(sep, 1): at most one split, at the first occurrence of sep
split_once(s, sep) ==
    LET i == FindFrom(s, sep, 1)
    IN  IF i = 0 THEN <<s>>
        ELSE <<SubSeq(s, 1, i - 1), SubSeq(s, i + Len(sep), Len(s))>>

RECURSIVE split(_, _)
\* str.split(sep): a split at every occurrence of sep
split(s, sep) ==
    LET i == FindFrom(s, sep, 1)
    IN  IF i = 0 THEN <<s>>
        ELSE <<SubSeq(s, 1, i - 1)>> \o split(SubSeq(s, i + Len(sep), Len(s)), sep)

RECURSIVE replace(_, _, _)
\* str.replace(old, new): every non-overlapping occurrence, left to right
replace(s, old, new) ==
    LET i == FindFrom(s, old, 1)
    IN  IF i = 0 THEN s
        ELSE SubSeq(s, 1, i - 1) \o new
                 \o replace(SubSeq(s, i + Len(old), Len(s)), old, new)

-----------------------------------------------------------------------------
(* fetch_restaurant_data *)

NoError == ""
FileNotFound == "FileNotFoundError: restaurant-data.txt file not found"
ProcessingError == "Exception: Error processing restaurant data"

RECURSIVE FindLastFrom(_, _, _)
\* the scan of str.rfind(): the last index <= i where sub starts, 0 when none
FindLastFrom(s, sub, i) ==
    IF i < 1 THEN 0
    ELSE IF StartsAt(s, sub, i) THEN i
    ELSE FindLastFrom(s, sub, i - 1)

\* str.rsplit(sep, 1): at most one split, at the last occurrence of sep
rsplit_once(s, sep) ==
    LET i == FindLastFrom(s, sep, Len(s))
    IN  IF i = 0 THEN <<s>>
        ELSE <<SubSeq(s, 1, i - 1), SubSeq(s, i + Len(sep), Len(s))>>

\* ParseLine splitting at the last '. ' of the line instead of the first
ParseLineLast(line) == rsplit_once(strip(line), <<"."," ">>)

\* line.strip().split('. ', 1)
ParseLine(line) == split_once(strip(line), <<"."," ">>)

RECURSIVE ReadReviews(_, _)
\* the loop over the file's lines
ReadReviews(lines, name) ==
    IF lines = <<>> THEN <<>>
    ELSE LET parts == ParseLine(Head(lines))
             rest == ReadReviews(Tail(lines), name)
         IN  IF Len(parts) # 2 THEN rest
             ELSE IF lower(parts[1]) = lower(name)
                  THEN <<parts[2]>> \o rest
                  ELSE rest

\* FetchOutcome without the `len(parts) != 2` guard: unpacking the parts of a
\* line with no separator raises, and the handler turns that into Exception
FetchOutcomeStrict(f, name) ==
    IF f.status = "missing"
    THEN [raises |-> FileNotFound, key |-> name, value |-> <<>>]
    ELSE IF \/ f.status = "unreadable"
            \/ \E i \in 1..Len(f.lines) : Len(ParseLine(f.lines[i])) # 2
    THEN [raises |-> ProcessingError, key |-> name, value |-> <<>>]
    ELSE [raises |-> NoError, key |-> name, value |-> ReadReviews(f.lines, name)]

\* the function's outcome: the exception it raises, or the dict it returns
\* (a dict with one key is the record of that key and its value)
FetchOutcome(f, name) ==
    IF f.status = "missing"
    THEN [raises |-> FileNotFound, key |-> name, value |-> <<>>]
    ELSE IF f.status = "unreadable"
    THEN [raises |-> ProcessingError, key |-> name, value |-> <<>>]
    ELSE [raises |-> NoError, key |-> name, value |-> ReadReviews(f.lines, name)]

NoDict == [key |-> <<>>, value |-> <<>>]

fetch_restaurant_data ==
    /\ pc = "fetch"
    /\ LET out == FetchOutcome(file, restaurant_name)
       IN  IF out.raises # NoError
           THEN /\ pc' = "raised"
                /\ error' = out.raises
                /\ UNCHANGED <<fetched, reviews>>
           ELSE /\ pc' = "extract"
                /\ fetched' = [key |-> out.key, value |-> out.value]
                /\ reviews' = out.value
                /\ UNCHANGED error
    /\ UNCHANGED <<file, restaurant_name, food_scores, customer_service_scores,
                   overall, segment, score, restaurant_query, prompt>>

-----------------------------------------------------------------------------
(* extract_restaurant_scores *)

\* the score_keywords dict, in its insertion order
score_keywords == <<
    [score |-> 1, keywords |-> <<<<"a","w","f","u","l">>, <<"h","o","r","r","i","b","l","e">>, <<"d","i","s","g","u","s","t","i","n","g">>>>],
    [score |-> 2, keywords |-> <<<<"b","a","d">>, <<"u","n","p","l","e","a","s","a","n","t">>, <<"o","f","f","e","n","s","i","v","e">>>>],
    [score |-> 3, keywords |-> <<<<"a","v","e","r","a","g","e">>, <<"u","n","i","n","s","p","i","r","i","n","g">>, <<"f","o","r","g","e","t","t","a","b","l","e">>>>],
    [score |-> 4, keywords |-> <<<<"g","o","o","d">>, <<"e","n","j","o","y","a","b","l","e">>, <<"s","a","t","i","s","f","y","i","n","g">>>>],
    [score |-> 5, keywords |-> <<<<"a","w","e","s","o","m","e">>, <<"i","n","c","r","e","d","i","b","l","e">>, <<"a","m","a","z","i","n","g">>>>] >>

\* AnyKeyword without the .lower() of the segment
AnyKeywordCaseSensitive(keywords, seg) ==
    \E k \in 1..Len(keywords) : Contains(seg, keywords[k])

\* any(keyword in segment.lower() for keyword in keywords)
AnyKeyword(keywords, seg) ==
    \E k \in 1..Len(keywords) : Contains(lower(seg), keywords[k])

RECURSIVE ScoreFrom(_, _)
\* get_score's loop over score_keywords.items(), from item i on
ScoreFrom(seg, i) ==
    IF i > Len(score_keywords) THEN 3
    ELSE IF AnyKeyword(score_keywords[i].keywords, seg)
         THEN score_keywords[i].score
         ELSE ScoreFrom(seg, i + 1)

RECURSIVE ScoreDownFrom(_, _)
\* get_score's loop over the items in reverse, from item i down
ScoreDownFrom(seg, i) ==
    IF i < 1 THEN 3
    ELSE IF AnyKeyword(score_keywords[i].keywords, seg)
         THEN score_keywords[i].score
         ELSE ScoreDownFrom(seg, i - 1)

\* get_score checking the highest score's keywords first
get_score_descending(seg) == ScoreDownFrom(seg, Len(score_keywords))

get_score(seg) == ScoreFrom(seg, 1)

\* ReviewScores with `len(segments) > 2` for `len(segments) >= 2`
ReviewScoresNeedsThree(review) ==
    LET segments == split(review, <<".">>)
    IN  IF Len(segments) > 2
        THEN [food |-> <<get_score(strip(segments[1]))>>,
              service |-> <<get_score(strip(segments[2]))>>]
        ELSE [food |-> <<>>, service |-> <<>>]

\* ReviewScores appending the food score before the length test
ReviewScoresUnaligned(review) ==
    LET segments == split(review, <<".">>)
    IN  [food |-> <<get_score(strip(segments[1]))>>,
         service |-> IF Len(segments) >= 2
                     THEN <<get_score(strip(segments[2]))>>
                     ELSE <<>>]

\* what one review appends to (food_scores, customer_service_scores)
ReviewScores(review) ==
    LET segments == split(review, <<".">>)
    IN  IF Len(segments) >= 2
        THEN [food |-> <<get_score(strip(segments[1]))>>,
              service |-> <<get_score(strip(segments[2]))>>]
        ELSE [food |-> <<>>, service |-> <<>>]

RECURSIVE ExtractScores(_)
\* the loop over the reviews
ExtractScores(rs) ==
    IF rs = <<>> THEN [food |-> <<>>, service |-> <<>>]
    ELSE LET one == ReviewScores(Head(rs))
             rest == ExtractScores(Tail(rs))
         IN  [food |-> one.food \o rest.food, service |-> one.service \o rest.service]

extract_restaurant_scores ==
    /\ pc = "extract"
    /\ LET out == ExtractScores(reviews)
       IN  /\ food_scores' = out.food
           /\ customer_service_scores' = out.service
    /\ pc' = "calculate"
    /\ UNCHANGED <<file, restaurant_name, fetched, reviews, overall, error,
                   segment, score, restaurant_query, prompt>>

\* get_score called on one segment
GetScore ==
    /\ pc = "score"
    /\ score' = get_score(segment)
    /\ pc' = "done"
    /\ UNCHANGED <<file, restaurant_name, fetched, reviews, food_scores,
                   customer_service_scores, overall, error, segment,
                   restaurant_query, prompt>>

-----------------------------------------------------------------------------
(* calculate_overall_score *)

(***************************************************************************)
(* The floating-point arithmetic is modelled in fixed point by an interval *)
(* that contains the real value: math.sqrt(n) is its first FracDigits      *)
(* decimal digits (the schoolbook digit-by-digit root), which is exact or  *)
(* less than one unit of the last digit below the root.  The double        *)
(* rounding errors (about 1e-15) are far below that unit.  Where the       *)
(* interval of the score holds one three-decimal rounding only, that is    *)
(* what f"{score:.3f}" prints; where it holds two, either may be printed.  *)
(***************************************************************************)
FracDigits == 5

LengthMismatch ==
    "ValueError: Food scores and customer service scores must have the same length"
ScoreOutOfRange == "ValueError: All scores must be between 1 and 5"

RECURSIVE Pow10(_)
Pow10(k) == IF k = 0 THEN 1 ELSE 10 * Pow10(k - 1)

\* floor(sqrt(n))
IntSqrt(n) == CHOOSE r \in 0..n : r * r <= n /\ (r + 1) * (r + 1) > n

RECURSIVE SqrtDigits(_, _, _)
\* k more decimal digits of a root, given its digits so far and the remainder
SqrtDigits(root, rem, k) ==
    IF k = 0 THEN [root |-> root, exact |-> (rem = 0)]
    ELSE LET r == rem * 100
             d == CHOOSE x \in 0..9 :
                      /\ (20 * root + x) * x <= r
                      /\ x = 9 \/ (20 * root + x + 1) * (x + 1) > r
         IN  SqrtDigits(10 * root + d, r - (20 * root + d) * d, k - 1)

\* math.sqrt(n): floor(sqrt(n) * 10^FracDigits), and whether sqrt(n) is exactly that
sqrt(n) == SqrtDigits(IntSqrt(n), n - IntSqrt(n) * IntSqrt(n), FracDigits)

RECURSIVE SumScores(_, _)
\* sum(math.sqrt(food_score ** 2 * service_score) for ... in zip(...)): the
\* interval [lo, hi] of the sum, in units of 10^-FracDigits
SumScores(food, service) ==
    IF food = <<>> \/ service = <<>> THEN [lo |-> 0, hi |-> 0]
    ELSE LET t == sqrt(Head(food) * Head(food) * Head(service))
             rest == SumScores(Tail(food), Tail(service))
         IN  [lo |-> t.root + rest.lo,
              hi |-> t.root + (IF t.exact THEN 0 ELSE 1) + rest.hi]

RECURSIVE ScaledQuotient(_, _, _)
\* floor(num * 10^k / den), by long division
ScaledQuotient(num, den, k) ==
    IF k = 0 THEN num \div den
    ELSE (num \div den) * Pow10(k) + ScaledQuotient((num % den) * 10, den, k - 1)

\* a quotient in thousandths, rounded to the nearest
Thousandths(num, den) == (ScaledQuotient(num, den, 4) + 5) \div 10

\* score = sum_scores * (1 / (N * math.sqrt(125))) * 10, in thousandths: the
\* roundings the interval of the real value holds
ScoreThousandths(food, service) ==
    LET sum == SumScores(food, service)
        N == Len(food)
        root125 == sqrt(125)
    IN  Thousandths(sum.lo * 10, N * (root125.root + 1)) ..
            Thousandths(sum.hi * 10, N * root125.root)

DigitChars == <<"0","1","2","3","4","5","6","7","8","9">>

RECURSIVE IntToStr(_)
IntToStr(n) ==
    IF n < 10 THEN <<DigitChars[n + 1]>>
    ELSE IntToStr(n \div 10) \o <<DigitChars[(n % 10) + 1]>>

\* f"{score:.3f}" of a score of m thousandths
Format3f(m) ==
    IntToStr(m \div 1000) \o <<".">>
        \o <<DigitChars[((m \div 100) % 10) + 1],
             DigitChars[((m \div 10) % 10) + 1],
             DigitChars[(m % 10) + 1]>>

\* AllInRange with `0 <= score` for `1 <= score`
AllInRangeFromZero(food, service) ==
    \A i \in 1..Len(food \o service) :
        0 <= (food \o service)[i] /\ (food \o service)[i] <= 5

\* all(1 <= score <= 5 for score in food_scores + customer_service_scores)
AllInRange(food, service) ==
    \A i \in 1..Len(food \o service) :
        1 <= (food \o service)[i] /\ (food \o service)[i] <= 5

\* the exception the validation raises, NoError when it passes
Validate(food, service) ==
    IF Len(food) # Len(service) THEN LengthMismatch
    ELSE IF ~AllInRange(food, service) THEN ScoreOutOfRange
    ELSE NoError

\* the value returned for N == 0: the float literal 0.000, whose repr is 0.0
EmptyScore == [type |-> "float", repr |-> <<"0",".","0">>]

\* the value returned otherwise: the str formatted_score
FormattedScore(m) == [type |-> "str", repr |-> Format3f(m)]

NoValue == [type |-> "none", repr |-> <<>>]

calculate_overall_score ==
    /\ pc = "calculate"
    /\ LET raises == Validate(food_scores, customer_service_scores)
       IN  IF raises # NoError
           THEN /\ pc' = "raised"
                /\ error' = raises
                /\ UNCHANGED overall
           ELSE /\ pc' = "done"
                /\ UNCHANGED error
                /\ IF Len(food_scores) = 0
                   THEN overall' = [key |-> restaurant_name, value |-> EmptyScore]
                   ELSE \E m \in ScoreThousandths(food_scores, customer_service_scores) :
                            overall' = [key |-> restaurant_name,
                                        value |-> FormattedScore(m)]
    /\ UNCHANGED <<file, restaurant_name, fetched, reviews, food_scores,
                   customer_service_scores, segment, score, restaurant_query, prompt>>

-----------------------------------------------------------------------------
(* get_data_fetch_agent_prompt *)

\* the restaurant_mappings dict, in its insertion order
restaurant_mappings == <<
    [incorrect |-> <<"m","c","d","o","n","a","l","d","s">>, correct |-> <<"M","c","D","o","n","a","l","d","'","s">>],
    [incorrect |-> <<"m","c","d","o","n","a","l","d">>, correct |-> <<"M","c","D","o","n","a","l","d","'","s">>],
    [incorrect |-> <<"m","c"," ","d","o","n","a","l","d","s">>, correct |-> <<"M","c","D","o","n","a","l","d","'","s">>],
    [incorrect |-> <<"s","u","b","w","a","y">>, correct |-> <<"S","u","b","w","a","y">>],
    [incorrect |-> <<"i","n"," ","n"," ","o","u","t">>, correct |-> <<"I","n","-","N","-","O","u","t">>],
    [incorrect |-> <<"i","n","n","o","u","t">>, correct |-> <<"I","n","-","N","-","O","u","t">>],
    [incorrect |-> <<"b","u","r","g","e","r"," ","k","i","n","g">>, correct |-> <<"B","u","r","g","e","r"," ","K","i","n","g">>],
    [incorrect |-> <<"b","u","r","g","e","r","k","i","n","g">>, correct |-> <<"B","u","r","g","e","r"," ","K","i","n","g">>],
    [incorrect |-> <<"k","f","c">>, correct |-> <<"K","F","C">>],
    [incorrect |-> <<"k","e","n","t","u","c","k","y"," ","f","r","i","e","d"," ","c","h","i","c","k","e","n">>, correct |-> <<"K","F","C">>],
    [incorrect |-> <<"w","e","n","d","y","s">>, correct |-> <<"W","e","n","d","y","'","s">>],
    [incorrect |-> <<"t","a","c","o"," ","b","e","l","l">>, correct |-> <<"T","a","c","o"," ","B","e","l","l">>],
    [incorrect |-> <<"t","a","c","o","b","e","l","l">>, correct |-> <<"T","a","c","o"," ","B","e","l","l">>],
    [incorrect |-> <<"c","h","i","p","o","t","l","e">>, correct |-> <<"C","h","i","p","o","t","l","e">>],
    [incorrect |-> <<"f","i","v","e"," ","g","u","y","s">>, correct |-> <<"F","i","v","e"," ","G","u","y","s">>],
    [incorrect |-> <<"f","i","v","e","g","u","y","s">>, correct |-> <<"F","i","v","e"," ","G","u","y","s">>],
    [incorrect |-> <<"p","o","p","e","y","e","s">>, correct |-> <<"P","o","p","e","y","e","s">>],
    [incorrect |-> <<"c","h","i","c","k"," ","f","i","l"," ","a">>, correct |-> <<"C","h","i","c","k","-","f","i","l","-","A">>],
    [incorrect |-> <<"c","h","i","c","k","f","i","l","a">>, correct |-> <<"C","h","i","c","k","-","f","i","l","-","A">>] >>

RECURSIVE CorrectFrom(_, _)
\* the loop over restaurant_mappings.items(), from item i on
CorrectFrom(query, i) ==
    IF i > Len(restaurant_mappings) THEN query
    ELSE IF Contains(lower(query), restaurant_mappings[i].incorrect)
         THEN replace(lower(query), restaurant_mappings[i].incorrect,
                      restaurant_mappings[i].correct)
         ELSE CorrectFrom(query, i + 1)

RECURSIVE CorrectAllFrom(_, _)
\* the loop without its return: every key found is replaced
CorrectAllFrom(query, i) ==
    IF i > Len(restaurant_mappings) THEN query
    ELSE IF Contains(lower(query), restaurant_mappings[i].incorrect)
         THEN CorrectAllFrom(replace(lower(query), restaurant_mappings[i].incorrect,
                                     restaurant_mappings[i].correct), i + 1)
         ELSE CorrectAllFrom(query, i + 1)

CorrectAllKeys(query) == CorrectAllFrom(query, 1)

CorrectedQuery(query) == CorrectFrom(query, 1)

get_data_fetch_agent_prompt ==
    /\ pc = "prompt"
    /\ prompt' = CorrectedQuery(restaurant_query)
    /\ pc' = "done"
    /\ UNCHANGED <<file, restaurant_name, fetched, reviews, food_scores,
                   customer_service_scores, overall, error, segment, score,
                   restaurant_query>>

-----------------------------------------------------------------------------
(* The inputs *)

RECURSIVE Concat(_)
\* the concatenation of a sequence of strings
Concat(ss) == IF ss = <<>> THEN <<>> ELSE Head(ss) \o Concat(Tail(ss))

RECURSIVE SeqsUpTo(_, _)
\* the sequences of at most n elements of S
SeqsUpTo(S, n) ==
    IF n = 0 THEN {<<>>}
    ELSE LET shorter == SeqsUpTo(S, n - 1)
         IN  shorter \cup {Append(q, x) : q \in shorter, x \in S}

\* the strings made of at most n pieces of P
Strings(P, n) == {Concat(ps) : ps \in SeqsUpTo(P, n)}

MaxLines == 2
MaxReviews == 2
MaxScores == 2
MaxPieces == 3
MaxQueryPieces == 3

\* the lines of restaurant-data.txt, each without its line terminator (which is
\* white space that strip() removes with the rest): a restaurant name, a
\* separator and a review, with or without white space around them
FileLines ==
    {pre \o name \o <<"."," ">> \o text :
        pre \in {<<>>, <<" ">>},
        name \in {<<"K","F","C">>, <<"S","u","b","w","a","y">>},
        text \in {<<>>, <<"A","w","f","u","l"," ","f","o","o","d","."," ","G","o","o","d"," ","s","t","a","f","f",".">>, <<"b","a","d","."," ","o","k","."," ">>, <<"A","m","a","z","i","n","g">>}}
        \cup {<<"K","F","C",".","A","m","a","z","i","n","g">>, <<>>}

Files ==
    {[status |-> "ok", lines |-> ls] : ls \in SeqsUpTo(FileLines, MaxLines)}
        \cup {[status |-> "missing", lines |-> <<>>],
              [status |-> "unreadable", lines |-> <<>>]}

Names == {<<"K","F","C">>, <<"k","f","c">>, <<"S","u","b","w","a","y">>, <<"W","e","n","d","y","'","s">>}

\* the reviews handed to extract_restaurant_scores on its own
ReviewTexts ==
    {a \o p \o b \o q :
        a \in {<<>>, <<"T","h","e"," ","f","o","o","d"," ","w","a","s"," ","B","A","D">>},
        p \in {<<>>, <<".">>, <<"."," ">>},
        b \in {<<>>, <<"a","w","f","u","l"," ","b","u","t"," ","g","o","o","d">>},
        q \in {<<>>, <<".">>}}

\* the pieces of get_score's segments
SegmentPieces ==
    {<<"a","w","f","u","l">>, <<"b","a","d">>, <<"B","A","D">>, <<"a","v","e","r","a","g","e">>, <<"g","o","o","d">>, <<"G","o","o","d">>,
     <<"a","m","a","z","i","n","g">>, <<" ">>, <<"b","a">>, <<"d">>}

\* the pieces of get_data_fetch_agent_prompt's queries
QueryPieces ==
    {<<"H","o","w"," ","g","o","o","d"," ","i","s"," ">>, <<"m","c","d","o","n","a","l","d","s">>, <<"M","c","D","o","n","a","l","d">>, <<"s">>, <<"?">>,
     <<" ">>, <<"K","F","C">>, <<"w","e","n","d","y","s">>}

ReferenceScores == <<1, 2, 3, 4, 5>>

ScoreLists == SeqsUpTo(0..6, MaxScores) \cup {ReferenceScores}

-----------------------------------------------------------------------------
(* The pipeline: lookup, then classify, then aggregate *)

Init ==
    /\ pc = "fetch"
    /\ file \in Files
    /\ restaurant_name \in Names
    /\ fetched = NoDict
    /\ reviews = <<>>
    /\ food_scores = <<>>
    /\ customer_service_scores = <<>>
    /\ overall = [key |-> <<>>, value |-> NoValue]
    /\ error = NoError
    /\ segment = <<>>
    /\ score = 0
    /\ restaurant_query = <<>>
    /\ prompt = <<>>

Next ==
    \/ fetch_restaurant_data
    \/ extract_restaurant_scores
    \/ calculate_overall_score

Spec == Init /\ [][Next]_vars

(* extract_restaurant_scores on any review list *)

InitClassify ==
    /\ pc = "extract"
    /\ file = [status |-> "ok", lines |-> <<>>]
    /\ restaurant_name = <<"K","F","C">>
    /\ fetched = NoDict
    /\ reviews \in SeqsUpTo(ReviewTexts, MaxReviews)
    /\ food_scores = <<>>
    /\ customer_service_scores = <<>>
    /\ overall = [key |-> <<>>, value |-> NoValue]
    /\ error = NoError
    /\ segment = <<>>
    /\ score = 0
    /\ restaurant_query = <<>>
    /\ prompt = <<>>

NextClassify == extract_restaurant_scores

SpecClassify == InitClassify /\ [][NextClassify]_vars

(* get_score on any segment *)

InitScore ==
    /\ pc = "score"
    /\ file = [status |-> "ok", lines |-> <<>>]
    /\ restaurant_name = <<>>
    /\ fetched = NoDict
    /\ reviews = <<>>
    /\ food_scores = <<>>
    /\ customer_service_scores = <<>>
    /\ overall = [key |-> <<>>, value |-> NoValue]
    /\ error = NoError
    /\ segment \in Strings(SegmentPieces, MaxPieces)
    /\ score = 0
    /\ restaurant_query = <<>>
    /\ prompt = <<>>

NextScore == GetScore

SpecScore == InitScore /\ [][NextScore]_vars

(* calculate_overall_score on any two score lists *)

InitAggregate ==
    /\ pc = "calculate"
    /\ file = [status |-> "ok", lines |-> <<>>]
    /\ restaurant_name = <<"X">>
    /\ fetched = NoDict
    /\ reviews = <<>>
    /\ food_scores \in ScoreLists
    /\ customer_service_scores \in ScoreLists
    /\ overall = [key |-> <<>>, value |-> NoValue]
    /\ error = NoError
    /\ segment = <<>>
    /\ score = 0
    /\ restaurant_query = <<>>
    /\ prompt = <<>>

NextAggregate == calculate_overall_score

SpecAggregate == InitAggregate /\ [][NextAggregate]_vars

(* get_data_fetch_agent_prompt on any query *)

InitPrompt ==
    /\ pc = "prompt"
    /\ file = [status |-> "ok", lines |-> <<>>]
    /\ restaurant_name = <<>>
    /\ fetched = NoDict
    /\ reviews = <<>>
    /\ food_scores = <<>>
    /\ customer_service_scores = <<>>
    /\ overall = [key |-> <<>>, value |-> NoValue]
    /\ error = NoError
    /\ segment = <<>>
    /\ score = 0
    /\ restaurant_query \in Strings(QueryPieces, MaxQueryPieces)
    /\ prompt = <<>>

NextPrompt == get_data_fetch_agent_prompt

SpecPrompt == InitPrompt /\ [][NextPrompt]_vars

-----------------------------------------------------------------------------
(* The properties: what the operations are said to compute, stated without *)
(* the loops and scans above                                               *)

\* sub occurs in s
Occurs(s, sub) ==
    \E i \in 1..(Len(s) - Len(sub) + 1) : SubSeq(s, i, i + Len(sub) - 1) = sub

\* s without its leading and trailing white space
Trimmed(s) ==
    LET black == {i \in 1..Len(s) : s[i] \notin Whitespace}
    IN  IF black = {} THEN <<>>
        ELSE SubSeq(s, CHOOSE i \in black : \A j \in black : i <= j,
                       CHOOSE i \in black : \A j \in black : j <= i)

\* s as it is
Untrimmed(s) == s

\* where the first ". " of s starts, 0 when s has none
FirstSeparator(s) ==
    LET at == {i \in 1..(Len(s) - 1) : s[i] = "." /\ s[i + 1] = " "}
    IN  IF at = {} THEN 0 ELSE CHOOSE i \in at : \A j \in at : i <= j

NameSegment(s) == SubSeq(s, 1, FirstSeparator(s) - 1)

ReviewText(s) == SubSeq(s, FirstSeparator(s) + 2, Len(s))

\* the lines (by index) whose restaurant-name segment is the query, case aside
MatchingLines(lines, query, View(_)) ==
    {i \in 1..Len(lines) :
        /\ FirstSeparator(View(lines[i])) # 0
        /\ lower(NameSegment(View(lines[i]))) = lower(query)}

\* result is the review texts of the matching lines, in the order of the file
IsSelection(result, lines, query, View(_)) ==
    LET M == MatchingLines(lines, query, View)
    IN  /\ Len(result) = Cardinality(M)
        /\ \A i \in M :
              result[Cardinality({k \in M : k <= i})] = ReviewText(View(lines[i]))

C2_Original ==
    (file.status = "ok" /\ pc # "fetch") =>
        /\ IsSelection(fetched.value, file.lines, restaurant_name, Untrimmed)
        /\ \A other \in Names :
              lower(other) = lower(restaurant_name)
                  => ReadReviews(file.lines, other) = fetched.value

\* C2 amended: the same, of each line without its leading and trailing white
\* space: the name segment and the review text are those of the stripped line.
C2_LookupSelectsMatchingReviews ==
    (file.status = "ok" /\ pc # "fetch") =>
        /\ IsSelection(fetched.value, file.lines, restaurant_name, Trimmed)
        /\ \A other \in Names :
              lower(other) = lower(restaurant_name)
                  => ReadReviews(file.lines, other) = fetched.value

C2_Witness ==
    /\ pc = "extract"
    /\ restaurant_name = <<"k","f","c">>
    /\ Len(fetched.value) = 2
    /\ fetched.value[1] # fetched.value[2]
    /\ \E i \in 1..Len(file.lines) : file.lines[i] # Trimmed(file.lines[i])

\* C10: the pipeline never raises on its own data: with a readable source, what
\* lookup returns goes through classify and aggregate without LengthMismatch or
\* ScoreOutOfRange; the run is at one of its three calls (each enabled there) or
\* has ended, and it ends with the restaurant name bound to an overall score.
C10_PipelineIsSafe ==
    file.status = "ok" =>
        /\ error \notin {LengthMismatch, ScoreOutOfRange}
        /\ pc \in {"fetch", "extract", "calculate", "done"}
        /\ pc \in {"calculate", "done"} =>
              /\ Len(food_scores) = Len(customer_service_scores)
              /\ \A i \in 1..Len(food_scores) :
                    food_scores[i] \in 1..5 /\ customer_service_scores[i] \in 1..5
        /\ pc = "done" =>
              /\ overall.key = restaurant_name
              /\ overall.value.type \in {"float", "str"}

C10_Witness ==
    /\ pc = "done"
    /\ Len(fetched.value) = 2
    /\ Len(food_scores) = 1
    /\ overall.value.type = "str"

\* C3: the two lists classify returns have the same length, at most the number
\* of reviews, and exactly the number of reviews that split on "." into two
\* segments or more, which are the reviews that hold a ".".
C3_ScoreListsAligned ==
    pc = "calculate" =>
        /\ Len(food_scores) = Len(customer_service_scores)
        /\ Len(food_scores) <= Len(reviews)
        /\ Len(food_scores) =
               Cardinality({i \in 1..Len(reviews) :
                               \E j \in 1..Len(reviews[i]) : reviews[i][j] = "."})

C3_Witness ==
    /\ pc = "calculate"
    /\ Len(reviews) = 2
    /\ Len(food_scores) = 1
    /\ Len(customer_service_scores) = 1

\* a keyword of the tier with this score occurs in the lowercased segment
TierOccurs(seg, tier) ==
    \E i \in 1..Len(score_keywords) :
        /\ score_keywords[i].score = tier
        /\ \E k \in 1..Len(score_keywords[i].keywords) :
              Occurs(lower(seg), score_keywords[i].keywords[k])

BadAndGood(seg) == Occurs(lower(seg), <<"b","a","d">>) /\ Occurs(lower(seg), <<"g","o","o","d">>)

\* C4 as stated: a segment containing both "bad" and "good" always scores 2,
\* whatever else it contains.
C4_Original ==
    (pc = "done" /\ BadAndGood(segment)) => score = 2

\* C4 amended: a segment containing both "bad" and "good" scores 2 unless it also
\* contains a keyword of tier 1 (awful, horrible, disgusting), and then scores 1.
C4_BadBeatsGood ==
    (pc = "done" /\ BadAndGood(segment)) =>
        score = IF TierOccurs(segment, 1) THEN 1 ELSE 2

C4_Witness ==
    /\ pc = "done"
    /\ BadAndGood(segment)
    /\ ~TierOccurs(segment, 1)
    /\ score = 2

\* C5: a segment's score is the lowest tier (1 to 5) with a keyword occurring in
\* the lowercased segment, and exactly 3 when no keyword of any tier occurs; so
\* every score lies in 1..5.
C5_LowestTierWins ==
    pc = "done" =>
        /\ score \in 1..5
        /\ (\A t \in 1..5 : ~TierOccurs(segment, t)) => score = 3
        /\ (\E t \in 1..5 : TierOccurs(segment, t)) =>
              /\ TierOccurs(segment, score)
              /\ \A t \in 1..5 : TierOccurs(segment, t) => score <= t

C5_Witness ==
    /\ pc = "done"
    /\ score = 4
    /\ TierOccurs(segment, 5)
    /\ segment # lower(segment)

\* a value outside the closed integer range [1,5] in either list
SomeOutOfRange ==
    \/ \E i \in 1..Len(food_scores) : food_scores[i] \notin 1..5
    \/ \E i \in 1..Len(customer_service_scores) :
          customer_service_scores[i] \notin 1..5

\* C6: aggregate raises and returns nothing whenever the lists differ in length
\* (LengthMismatch) or hold a value outside [1,5] (ScoreOutOfRange); it returns a
\* result only when neither is the case.
C6_AggregateValidates ==
    pc # "calculate" =>
        LET mismatch == Len(food_scores) # Len(customer_service_scores)
        IN  /\ (mismatch \/ SomeOutOfRange) =>
                  /\ pc = "raised"
                  /\ error \in {LengthMismatch, ScoreOutOfRange}
                  /\ overall.value = NoValue
            /\ error = LengthMismatch => mismatch
            /\ error = ScoreOutOfRange => SomeOutOfRange
            /\ ~(mismatch \/ SomeOutOfRange) =>
                  /\ pc = "done"
                  /\ error = NoError
                  /\ overall.key = restaurant_name
                  /\ overall.value # NoValue

C6_Witness ==
    /\ pc = "raised"
    /\ error = ScoreOutOfRange
    /\ food_scores = <<0, 5>>
    /\ customer_service_scores = <<1, 6>>

\* C7 as stated: aggregate("X", [], []) returns {"X": "0.000"}, the
\* three-decimal formatted representation that non-empty inputs get.
C7_EmptyIsFormatted ==
    (pc = "done" /\ food_scores = <<>> /\ customer_service_scores = <<>>) =>
        overall = [key |-> <<"X">>, value |-> [type |-> "str", repr |-> <<"0",".","0","0","0">>]]

\* C8 as stated: aggregate("X", [1,2,3,4,5], [1,2,3,4,5]) returns {"X": "5.048"}.
C8_ReferenceScore ==
    (/\ pc = "done"
     /\ food_scores = ReferenceScores
     /\ customer_service_scores = ReferenceScores) =>
        overall = [key |-> <<"X">>, value |-> [type |-> "str", repr |-> <<"5",".","0","4","8">>]]

\* the first mapping entry whose key occurs in the lowercased query, 0 when none
FirstKey(query) ==
    LET found == {i \in 1..Len(restaurant_mappings) :
                     Occurs(lower(query), restaurant_mappings[i].incorrect)}
    IN  IF found = {} THEN 0 ELSE CHOOSE i \in found : \A j \in found : i <= j

ExampleQuery == <<"H","o","w"," ","g","o","o","d"," ","i","s"," ","m","c","d","o","n","a","l","d","s","?">>

\* the query lowercased, the first key's occurrences replaced by its canonical form
OneSubstitution(query) ==
    replace(lower(query), restaurant_mappings[FirstKey(query)].incorrect,
            restaurant_mappings[FirstKey(query)].correct)

=============================================================================
